---- MODULE Spec2Model ----
(***************************************************************************)
(* Shadow-execution resolver of unlicense/emulation.py.                    *)
(*                                                                         *)
(* resolve_wrapped_api builds an emulated CPU (stack, TEB, PEB), installs  *)
(* the unmapped-memory hook (Memory Bridge) and the block hook             *)
(* (Termination Oracle), runs the engine from wrapper_start_addr and       *)
(* returns the program counter or None.                                    *)
(*                                                                         *)
(* Addresses are abstract cells: one cell holds one pointer-sized value    *)
(* and is the start of at most one basic block.  A page is PageSize cells. *)
(* 32/64-bit addresses do not fit TLC's integers, so the layout            *)
(* keeps the order of the real one (null page < wrapper < exports <        *)
(* 0xdeadbeef < stack < TEB < PEB) on a small address space that wraps.    *)
(* The wrapper's code is an input: the instruction of a block is fixed the *)
(* first time the block is executed (variable code) and is the same        *)
(* afterwards; writes of the wrapper into its own code are not modelled.   *)
(* The real process's answers to read_process_memory are an input fixed    *)
(* the same way (variable page_len).                                       *)
(***************************************************************************)
EXTENDS Integers, FiniteSets, TLC

\* ---------------------------------------------------------------- bounds
\* Number of wrapper blocks (outside exported functions) that hold a valid
\* instruction; every other block of the process is an invalid opcode.
MaxCode == 3

\* ------------------------------------------------------ program constants
\* process_controller.page_size, in cells
PageSize == 4
\* number of pages of the abstract address space
NumPages == 12
\* STACK_MAGIC_RET_ADDR = 0xdeadbeef: an address in a page below the stack
STACK_MAGIC_RET_ADDR == 13
\* the span passed to emu_start: until = wrapper_start_addr + 1024
WINDOW == 2
\* Python's None (expected_ret_addr, return value)
None == -1

NumAddr == NumPages * PageSize
Addr == 0 .. (NumAddr - 1)
Pages == 0 .. (NumPages - 1)

\* address arithmetic of the emulated machine wraps at the word size
Wrap(a) == a % NumAddr
PageOf(a) == a \div PageSize

\* ------------------------------------------------------------ the inputs
\* process_controller.architecture: the two supported tags and another one
ArchTags == {"ia32", "x64", "arm64"}

\* process_controller.enumerate_exported_functions(): address -> name
exports_dict == (8 :> "ExitProcess") @@ (9 :> "CreateFileW")

\* wrapper entry points tried: a wrapper stub, an export itself, and an
\* address inside the emulated stack
StartAddrs == {4, 9, 24}

\* expected_ret_addr: absent, the return address of a call made at the
\* wrapper's first block, an address no call returns to, or the sentinel
ExpectedAddrs == {None, 5, 7, 13}

\* len(read_process_memory(aligned_addr, page_size)) as the real process
\* answers it: 0 stands for a raised exception, then a short read, one page,
\* and two pages
ReadLens == {0, PageSize \div 2, PageSize, 2 * PageSize}

\* content of the real process at an address
ProcByte(a) == 1 + (a % 3)

\* the instructions a wrapper block can be: a jump (into the null page, to
\* the wrapper, to an export, to the sentinel address), a call of an export
\* (pushes the address of the next block), a load (from the null address,
\* from the null page, from above the stack), a return, a fall through, a
\* release of one page of stack, an opcode the engine rejects
Undef == [op |-> "undef", arg |-> 0]
Invalid == [op |-> "invalid", arg |-> 0]
Instrs ==
    {[op |-> "jmp", arg |-> t] : t \in {1, 4, 8, 9, 13}}
    \cup {[op |-> "call", arg |-> t] : t \in {8, 9}}
    \cup {[op |-> "load", arg |-> a] : a \in {0, 1, 28}}
    \cup {[op |-> o, arg |-> 0] : o \in {"ret", "nop", "addsp", "invalid"}}
\* the body of an exported function, when the oracle lets it run
ExportBodies == {[op |-> "ret", arg |-> 0], Invalid}

VARIABLES
    arch,               \* process_controller.architecture
    wrapper_start_addr, \* argument
    expected_ret_addr,  \* argument, None when absent
    proc_mem,           \* memory of the real process
    page_len,           \* per page: the length the real process returns (-1: not read yet)
    code,               \* per address: the block's instruction (Undef: not executed yet)
    ctl,                \* position in resolve_wrapped_api: "call", "emu", "done"
    ret_kind,           \* "pending", "value", "None", "raise"
    ret_val,            \* the returned address when ret_kind = "value"
    exc,                \* the exception raised to the caller when ret_kind = "raise"
    uc_created,         \* Uc(uc_arch, uc_mode) has been constructed
    uc_mode,            \* 32 or 64, 0 before construction
    perm,               \* emulated address space: page -> "none", "rw", "all"
    mem,                \* emulated memory contents
    pc, sp, bp,         \* emulated registers
    seg_base,           \* FS/GS base written through the MSR (None: not written)
    hooks,              \* installed hook kinds
    stop_on_ret_addr,   \* the block hook's user_data[1]
    until,              \* emu_start's second argument
    emu,                \* engine: "idle","fetch","hook","exec","fault","stopped","until","error"
    fault_addr,         \* address of the pending unmapped access
    resume,             \* what the engine retries after a handled fault
    uc_err,             \* the UcError raised, "none" when none
    enum_calls,         \* calls of enumerate_exported_functions: 0, 1, 2 = more
    oracle_log          \* <<export address, value at the stack pointer>> seen by the block hook

args == <<arch, wrapper_start_addr, expected_ret_addr>>
inputs == <<args, proc_mem>>
lazy == <<page_len, code>>
caller == <<ctl, ret_kind, ret_val, exc>>
space == <<perm, mem>>
regs == <<pc, sp, bp, seg_base>>
setup == <<uc_created, uc_mode, hooks, stop_on_ret_addr, until>>
engine == <<emu, fault_addr, resume, uc_err>>
ghost == <<enum_calls, oracle_log>>
vars == <<inputs, lazy, caller, space, regs, setup, engine, ghost>>

\* ------------------------------------------------- architecture profile
\* a dispatch whose last branch is a plain else: any other tag gets the
\* 64-bit profile
ArchSupported_Fallback(a) == a \in {"ia32", "x64"} \/ a # "ia32"

ArchSupported(a) == a \in {"ia32", "x64"}
ArchMode(a) == IF a = "ia32" THEN 32 ELSE 64
\* stack_addr = 0xff000000 / 0xff00000000000000
StackAddr(a) == IF a = "ia32" THEN 16 ELSE 20
\* teb_addr = 0xff100000 / 0xff10000000000000
TebAddr(a) == IF a = "ia32" THEN 32 ELSE 36
\* peb_addr = 0xff200000 / 0xff20000000000000
PebAddr(a) == IF a = "ia32" THEN 36 ELSE 40
\* offsets of the self pointer and of the PEB pointer in the TEB
\* (0x18, 0x30 on ia32; 0x30, 0x60 on x64)
TebSelfOff(a) == IF a = "ia32" THEN 1 ELSE 2
TebPebOff(a) == IF a = "ia32" THEN 2 ELSE 3

\* stack_size = 3 * page_size; stack_start = stack_addr + stack_size - page_size
StackSize == 3 * PageSize
\* a builder that starts the stack at the end of the region
StackStart_Top(a) == StackAddr(a) + 3 * PageSize
StackStart(a) == StackAddr(a) + StackSize - PageSize

\* ------------------------------------------------------ engine memory API
PagesOf(start, size) == {p \in Pages : start <= p * PageSize /\ p * PageSize < start + size}

\* uc.mem_map succeeds iff the range is page aligned, not empty, inside the
\* address space and overlaps no mapped region
MemMapOk(pm, start, size) ==
    /\ size > 0
    /\ start % PageSize = 0
    /\ size % PageSize = 0
    /\ start + size <= NumAddr
    /\ \A p \in PagesOf(start, size) : pm[p] = "none"

MemMap(pm, start, size, prot) ==
    [p \in Pages |-> IF p \in PagesOf(start, size) THEN prot ELSE pm[p]]

Mapped(pm, a) == pm[PageOf(a)] # "none"

Init ==
    /\ arch \in ArchTags
    /\ wrapper_start_addr \in StartAddrs
    /\ expected_ret_addr \in ExpectedAddrs
    /\ proc_mem = [a \in Addr |-> ProcByte(a)]
    /\ page_len = [p \in Pages |-> -1]
    /\ code = [a \in Addr |-> Undef]
    /\ ctl = "call"
    /\ ret_kind = "pending"
    /\ ret_val = None
    /\ exc = "none"
    /\ uc_created = FALSE
    /\ uc_mode = 0
    /\ perm = [p \in Pages |-> "none"]
    /\ mem = [a \in Addr |-> 0]
    /\ pc = 0
    /\ sp = 0
    /\ bp = 0
    /\ seg_base = None
    /\ hooks = {}
    /\ stop_on_ret_addr = None
    /\ until = None
    /\ emu = "idle"
    /\ fault_addr = None
    /\ resume = "none"
    /\ uc_err = "none"
    /\ enum_calls = 0
    /\ oracle_log = {}

\* --------------------------------------------------- Environment Builder
\* what the engine may refuse while the environment is built: the instance,
\* or one of the three mem_map calls (UcError)
BuildFailures == {"none", "uc", "stack", "teb", "peb"}

\* _setup_teb_x86: maps TEB and PEB, writes the two pointers, programs FS base
_setup_teb_x86(pm, m, f) ==
    LET teb_addr == TebAddr("ia32")
        peb_addr == PebAddr("ia32")
        ok1 == f # "teb" /\ MemMapOk(pm, teb_addr, PageSize)
        pm1 == IF ok1 THEN MemMap(pm, teb_addr, PageSize, "rw") ELSE pm
        ok2 == ok1 /\ f # "peb" /\ MemMapOk(pm1, peb_addr, PageSize)
        pm2 == IF ok2 THEN MemMap(pm1, peb_addr, PageSize, "rw") ELSE pm1
    IN  [ok |-> ok2,
         perm |-> pm2,
         mem |-> IF ok2
                 THEN [m EXCEPT ![teb_addr + TebSelfOff("ia32")] = teb_addr,
                                ![teb_addr + TebPebOff("ia32")] = peb_addr]
                 ELSE m,
         seg_base |-> IF ok2 THEN teb_addr ELSE None]

\* _setup_teb_x64: the same at the 64-bit addresses and offsets, GS base
_setup_teb_x64(pm, m, f) ==
    LET teb_addr == TebAddr("x64")
        peb_addr == PebAddr("x64")
        ok1 == f # "teb" /\ MemMapOk(pm, teb_addr, PageSize)
        pm1 == IF ok1 THEN MemMap(pm, teb_addr, PageSize, "rw") ELSE pm
        ok2 == ok1 /\ f # "peb" /\ MemMapOk(pm1, peb_addr, PageSize)
        pm2 == IF ok2 THEN MemMap(pm1, peb_addr, PageSize, "rw") ELSE pm1
    IN  [ok |-> ok2,
         perm |-> pm2,
         mem |-> IF ok2
                 THEN [m EXCEPT ![teb_addr + TebSelfOff("x64")] = teb_addr,
                                ![teb_addr + TebPebOff("x64")] = peb_addr]
                 ELSE m,
         seg_base |-> IF ok2 THEN teb_addr ELSE None]

\* if expected_ret_addr is None: stop_on_ret_addr = STACK_MAGIC_RET_ADDR
StopOnRetAddr(expected) ==
    IF expected = None THEN STACK_MAGIC_RET_ADDR ELSE expected

\* a builder that writes the sentinel one cell below the stack pointer
WriteRetAddr_Below(m, stack_start) ==
    [m EXCEPT ![stack_start - 1] = STACK_MAGIC_RET_ADDR]

\* uc.mem_write(stack_start, struct.pack(..., STACK_MAGIC_RET_ADDR))
\* a builder that leaves the stack as the engine zeroed it
WriteRetAddr_Skipped(m, stack_start) == m

WriteRetAddr(m, stack_start) == [m EXCEPT ![stack_start] = STACK_MAGIC_RET_ADDR]

\* resolve_wrapped_api up to and including the call of uc.emu_start
ResolveEnter ==
    /\ ctl = "call"
    /\ IF ~ArchSupported(arch)
       THEN \* raise NotImplementedError, outside the try block
            /\ ctl' = "done"
            /\ ret_kind' = "raise"
            /\ exc' = "NotImplementedError"
            /\ UNCHANGED <<ret_val, space, regs, setup, engine>>
       ELSE \E f \in BuildFailures :
            LET stack_addr == StackAddr(arch)
                stack_start == StackStart(arch)
                okUc == f # "uc"
                okStack == okUc /\ f # "stack" /\ MemMapOk(perm, stack_addr, StackSize)
                perm1 == IF okStack THEN MemMap(perm, stack_addr, StackSize, "rw") ELSE perm
                mem1 == IF okStack THEN WriteRetAddr(mem, stack_start) ELSE mem
                teb == IF ~okStack
                       THEN [ok |-> FALSE, perm |-> perm1, mem |-> mem1, seg_base |-> None]
                       ELSE IF arch = "ia32" THEN _setup_teb_x86(perm1, mem1, f)
                                             ELSE _setup_teb_x64(perm1, mem1, f)
            IN  /\ uc_created' = okUc
                /\ uc_mode' = IF okUc THEN ArchMode(arch) ELSE 0
                /\ perm' = teb.perm
                /\ mem' = teb.mem
                /\ sp' = IF okStack THEN stack_start ELSE sp
                /\ bp' = IF okStack THEN stack_start ELSE bp
                /\ seg_base' = teb.seg_base
                /\ IF teb.ok
                   THEN /\ stop_on_ret_addr' = StopOnRetAddr(expected_ret_addr)
                        /\ hooks' = {"UC_HOOK_MEM_UNMAPPED", "UC_HOOK_BLOCK"}
                        /\ until' = Wrap(wrapper_start_addr + WINDOW)
                        /\ pc' = wrapper_start_addr
                        /\ emu' = "fetch"
                        /\ ctl' = "emu"
                        /\ UNCHANGED uc_err
                   ELSE /\ uc_err' = IF okUc THEN "UC_ERR_NOMEM" ELSE "UC_ERR_ARCH"
                        /\ ctl' = "except"
                        /\ UNCHANGED <<stop_on_ret_addr, hooks, until, pc, emu>>
                /\ UNCHANGED <<ret_kind, ret_val, exc, fault_addr, resume>>
    /\ UNCHANGED <<inputs, lazy, ghost>>

\* ----------------------------------------------------------- Memory Bridge
\* if address == 0: return False
BridgeDeclines(address) == address = 0

\* aligned_addr = address - (address & (page_size - 1)), page_size a power of two
AlignedAddr(address, page_size) == address - (address % page_size)

\* a bridge that ignores the engine's refusal to map an occupied range and
\* copies the real process's bytes in all the same
BridgeRemaps(pm, m, pmem, address, n) ==
    LET aligned_addr == address - (address % PageSize)
        fits == n > 0 /\ n % PageSize = 0 /\ aligned_addr + n <= NumAddr
    IN  IF address = 0 \/ ~fits
        THEN [ok |-> FALSE, perm |-> pm, mem |-> m]
        ELSE [ok |-> TRUE,
              perm |-> [p \in Pages |->
                          IF aligned_addr <= p * PageSize /\ p * PageSize < aligned_addr + n
                          THEN "all" ELSE pm[p]],
              mem |-> [a \in Addr |->
                          IF aligned_addr <= a /\ a < aligned_addr + n
                          THEN pmem[a] ELSE m[a]]]

\* a bridge that keeps one mirrored page at a time: mapping a page releases
\* the pages mirrored before
BridgeEvicts(pm, m, pmem, address, n) ==
    LET aligned_addr == address - (address % PageSize)
    IN  IF address = 0 \/ n = 0 \/ ~MemMapOk(pm, aligned_addr, n)
        THEN [ok |-> FALSE, perm |-> pm, mem |-> m]
        ELSE [ok |-> TRUE,
              perm |-> [p \in Pages |->
                          IF aligned_addr <= p * PageSize /\ p * PageSize < aligned_addr + n
                          THEN "all"
                          ELSE IF pm[p] = "all" THEN "none" ELSE pm[p]],
              mem |-> [a \in Addr |->
                          IF aligned_addr <= a /\ a < aligned_addr + n
                          THEN pmem[a] ELSE m[a]]]

\* _unicorn_hook_unmapped, given the length n the real process returns for
\* the page (0: read_process_memory raised): the value returned to the
\* engine and the address space it leaves
_unicorn_hook_unmapped(pm, m, pmem, address, n) ==
    LET aligned_addr == AlignedAddr(address, PageSize)
    IN  IF BridgeDeclines(address)
        THEN [ok |-> FALSE, perm |-> pm, mem |-> m]
        ELSE IF n = 0 \/ ~MemMapOk(pm, aligned_addr, n)
        THEN [ok |-> FALSE, perm |-> pm, mem |-> m]
        ELSE [ok |-> TRUE,
              perm |-> MemMap(pm, aligned_addr, n, "all"),
              mem |-> [a \in Addr |->
                          IF aligned_addr <= a /\ a < aligned_addr + n
                          THEN pmem[a] ELSE m[a]]]

\* a bridge that also writes the page back to the real process, zeroed
ProcessAfterRead_Writes(pmem, aligned_addr, n) ==
    [a \in Addr |-> IF aligned_addr <= a /\ a < aligned_addr + n THEN 0 ELSE pmem[a]]

\* process_controller.read_process_memory(aligned_addr, page_size) only reads:
\* the real process's memory after the call
ProcessAfterRead(pmem, aligned_addr, n) == pmem

\* the engine calls the UC_HOOK_MEM_UNMAPPED hook for the pending access and
\* retries the access when the hook returns True
HookUnmapped ==
    /\ ctl = "emu"
    /\ emu = "fault"
    /\ "UC_HOOK_MEM_UNMAPPED" \in hooks
    /\ LET p == PageOf(AlignedAddr(fault_addr, PageSize))
           lens == IF BridgeDeclines(fault_addr) THEN {-1}
                   ELSE IF page_len[p] # -1 THEN {page_len[p]}
                   ELSE ReadLens
       IN  \E n \in lens :
           LET r == _unicorn_hook_unmapped(perm, mem, proc_mem, fault_addr, n)
           IN  /\ page_len' = IF n = -1 THEN page_len ELSE [page_len EXCEPT ![p] = n]
               /\ perm' = r.perm
               /\ mem' = r.mem
               /\ proc_mem' = IF n = -1 THEN proc_mem
                               ELSE ProcessAfterRead(proc_mem, AlignedAddr(fault_addr, PageSize), n)
               /\ IF r.ok /\ Mapped(r.perm, fault_addr)
                  THEN /\ emu' = resume
                       /\ UNCHANGED uc_err
                  ELSE /\ emu' = "error"
                       /\ uc_err' = IF resume = "fetch" THEN "UC_ERR_FETCH_UNMAPPED"
                                    ELSE "UC_ERR_MEM_UNMAPPED"
    /\ fault_addr' = None
    /\ resume' = "none"
    /\ UNCHANGED <<args, code, caller, regs, setup, ghost>>

\* ------------------------------------------------------ Termination Oracle
\* a name test that misses the process-termination exports
IsNoReturnApi_Never(api_name) == api_name \in {}

\* NO_RETURN_APIS
NO_RETURN_APIS == {"ExitProcess", "FatalExit", "ExitThread"}
_is_no_return_api(api_name) == api_name \in NO_RETURN_APIS

\* a hook that compares the return address with the bound stop address only
OracleStops_NoSentinel(ret_addr, stop, api_name) ==
    \/ ret_addr = stop
    \/ api_name \in {"ExitProcess", "FatalExit", "ExitThread"}

\* the two branches of _unicorn_hook_block that call uc.emu_stop()
OracleStops(ret_addr, stop, api_name) ==
    \/ ret_addr = stop \/ ret_addr = STACK_MAGIC_RET_ADDR
    \/ _is_no_return_api(api_name)

\* uc.mem_read(sp, ptr_size) raises UcError when sp is not mapped
StackReadable(pm, spv) == Mapped(pm, spv)

\* a hook that decides against a mapping obtained before the run
EnumCount_Snapshot(n) == n

\* exports_dict = process_controller.enumerate_exported_functions(): one more
\* call of the service (0, 1, 2 = more than one)
EnumCount(n) == IF n < 2 THEN n + 1 ELSE 2

\* a hook that pops the return address it inspects
ReadRetAddr_Pops(m, spv) == [ret_addr |-> m[spv], sp |-> Wrap(spv + 1)]

\* sp = uc.reg_read(sp_register); ret_addr = unpack(uc.mem_read(sp, ptr_size)):
\* the value read and the stack pointer left behind
ReadRetAddr(m, spv) == [ret_addr |-> m[spv], sp |-> spv]

\* _unicorn_hook_block at the entry of the block at pc
HookBlock ==
    /\ ctl = "emu"
    /\ emu = "hook"
    /\ "UC_HOOK_BLOCK" \in hooks
    /\ enum_calls' = EnumCount(enum_calls)
    /\ IF pc \in DOMAIN exports_dict
       THEN IF StackReadable(perm, sp)
            THEN LET r == ReadRetAddr(mem, sp)
                 IN  /\ oracle_log' = oracle_log \cup {<<pc, r.ret_addr>>}
                     /\ emu' = IF OracleStops(r.ret_addr, stop_on_ret_addr, exports_dict[pc])
                               THEN "stopped" ELSE "exec"
                     /\ sp' = r.sp
                     /\ UNCHANGED uc_err
            ELSE /\ emu' = "error"
                 /\ uc_err' = "UC_ERR_READ_UNMAPPED"
                 /\ UNCHANGED <<oracle_log, sp>>
       ELSE /\ emu' = "exec"
            /\ UNCHANGED <<uc_err, oracle_log, sp>>
    /\ UNCHANGED <<inputs, lazy, caller, space, pc, bp, seg_base, setup, fault_addr, resume>>

\* ---------------------------------------------------------------- engine
\* the engine reaches the block at pc: the run ends at the until address,
\* an unmapped page faults, a page without execute permission is an error
EngineFetch ==
    /\ ctl = "emu"
    /\ emu = "fetch"
    /\ IF pc = until
       THEN /\ emu' = "until"
            /\ UNCHANGED <<fault_addr, resume, uc_err>>
       ELSE IF ~Mapped(perm, pc)
       THEN /\ emu' = "fault"
            /\ fault_addr' = pc
            /\ resume' = "fetch"
            /\ UNCHANGED uc_err
       ELSE IF perm[PageOf(pc)] # "all"
       THEN /\ emu' = "error"
            /\ uc_err' = "UC_ERR_FETCH_PROT"
            /\ UNCHANGED <<fault_addr, resume>>
       ELSE /\ emu' = "hook"
            /\ UNCHANGED <<fault_addr, resume, uc_err>>
    /\ UNCHANGED <<inputs, lazy, caller, space, regs, setup, ghost>>

\* number of wrapper blocks already fixed to a valid instruction
ValidBlocks == {a \in Addr : a \notin DOMAIN exports_dict
                             /\ code[a] \notin {Undef, Invalid}}

\* the instructions the block at a can turn out to be
Choices(a) ==
    IF code[a] # Undef THEN {code[a]}
    ELSE IF a \in DOMAIN exports_dict THEN ExportBodies
    ELSE IF Cardinality(ValidBlocks) < MaxCode THEN Instrs
    ELSE {Invalid}

\* the engine executes the block at pc
ExecBlock ==
    /\ ctl = "emu"
    /\ emu = "exec"
    /\ \E ins \in Choices(pc) :
       LET push_addr == Wrap(sp + NumAddr - 1)
           touched == CASE ins.op = "load" -> ins.arg
                        [] ins.op = "call" -> push_addr
                        [] ins.op = "ret" -> sp
                        [] OTHER -> None
       IN  /\ code' = [code EXCEPT ![pc] = ins]
           /\ IF ins.op = "invalid"
              THEN /\ emu' = "error"
                   /\ uc_err' = "UC_ERR_INSN_INVALID"
                   /\ UNCHANGED <<fault_addr, resume, mem, pc, sp>>
              ELSE IF touched # None /\ ~Mapped(perm, touched)
              THEN /\ emu' = "fault"
                   /\ fault_addr' = touched
                   /\ resume' = "exec"
                   /\ UNCHANGED <<uc_err, mem, pc, sp>>
              ELSE /\ emu' = "fetch"
                   /\ UNCHANGED <<fault_addr, resume, uc_err>>
                   /\ mem' = IF ins.op = "call"
                             THEN [mem EXCEPT ![push_addr] = Wrap(pc + 1)]
                             ELSE mem
                   /\ sp' = CASE ins.op = "call" -> push_addr
                              [] ins.op = "ret" -> Wrap(sp + 1)
                              [] ins.op = "addsp" -> Wrap(sp + PageSize)
                              [] OTHER -> sp
                   /\ pc' = CASE ins.op \in {"jmp", "call"} -> ins.arg
                              [] ins.op = "ret" -> mem[sp]
                              [] OTHER -> Wrap(pc + 1)
    /\ UNCHANGED <<inputs, page_len, caller, perm, bp, seg_base, setup, ghost>>

\* --------------------------------------------------- Resolver Orchestrator
\* emu_start returned: pc = uc.reg_read(pc_register); return pc
ReturnValue(pcv) == [kind |-> "value", val |-> pcv, exc |-> "none"]

\* a handler that lets the engine's error reach the caller
ExceptValue_Propagates(created) ==
    [kind |-> "raise", val |-> None, exc |-> "UcError"]

\* except UcError: log the registers of uc, return None
ExceptValue(created) ==
    IF created THEN [kind |-> "None", val |-> None, exc |-> "none"]
    ELSE [kind |-> "raise", val |-> None, exc |-> "UnboundLocalError"]

ResolveReturn ==
    /\ ctl = "emu"
    /\ emu \in {"stopped", "until"}
    /\ ctl' = "done"
    /\ ret_kind' = ReturnValue(pc).kind
    /\ ret_val' = ReturnValue(pc).val
    /\ exc' = ReturnValue(pc).exc
    /\ UNCHANGED <<inputs, lazy, space, regs, setup, engine, ghost>>

ResolveExcept ==
    /\ \/ ctl = "except"
       \/ ctl = "emu" /\ emu = "error"
    /\ ctl' = "done"
    /\ ret_kind' = ExceptValue(uc_created).kind
    /\ ret_val' = ExceptValue(uc_created).val
    /\ exc' = ExceptValue(uc_created).exc
    /\ UNCHANGED <<inputs, lazy, space, regs, setup, engine, ghost>>

Next ==
    \/ ResolveEnter
    \/ EngineFetch
    \/ HookUnmapped
    \/ HookBlock
    \/ ExecBlock
    \/ ResolveReturn
    \/ ResolveExcept

Spec == Init /\ [][Next]_vars

\* the call is one thread of control: a step that can be taken is taken
FairSpec == Init /\ [][Next]_vars /\ WF_vars(Next)

\* ================================================================ claims
\* a block-hook invocation is the step taken from this state
AtHook == ctl = "emu" /\ emu = "hook"

\* C1 (as stated): the block hook halts emulation iff the block is a known
\* export and the value at the stack pointer equals the active stop
\* condition, or the block is a known export with a non-returning name.
C1_Original ==
    [][AtHook =>
        ((emu' = "stopped") <=>
            /\ pc \in DOMAIN exports_dict
            /\ \/ StackReadable(perm, sp) /\ mem[sp] = stop_on_ret_addr
               \/ exports_dict[pc] \in {"ExitProcess", "FatalExit", "ExitThread"})]_vars

\* C1 (amended): the block hook calls emu_stop iff the block is a known
\* export, the read of the pointer-sized value at the stack pointer succeeds,
\* and that value equals the stop address bound to the hook or the sentinel
\* (also when an expected return address was supplied), or the export's name
\* is in the non-returning set.
C1_Amended ==
    [][AtHook =>
        ((emu' = "stopped") <=>
            /\ pc \in DOMAIN exports_dict
            /\ StackReadable(perm, sp)
            /\ \/ mem[sp] = stop_on_ret_addr
               \/ mem[sp] = STACK_MAGIC_RET_ADDR
               \/ exports_dict[pc] \in {"ExitProcess", "FatalExit", "ExitThread"})]_vars

\* the hook halted on the sentinel although another stop address was bound
C1_Witness ==
    /\ emu = "stopped"
    /\ expected_ret_addr # None
    /\ stop_on_ret_addr # STACK_MAGIC_RET_ADDR
    /\ mem[sp] = STACK_MAGIC_RET_ADDR
    /\ exports_dict[pc] = "CreateFileW"

C3_NoReturnHalts ==
    [][ /\ ( /\ AtHook
             /\ pc \in DOMAIN exports_dict
             /\ exports_dict[pc] \in {"ExitProcess", "FatalExit", "ExitThread"}
             /\ StackReadable(perm, sp) )
           => (emu' = "stopped" /\ pc' = pc)
        /\ ( /\ ctl = "emu"
             /\ emu = "stopped"
             /\ pc \in DOMAIN exports_dict
             /\ exports_dict[pc] \in {"ExitProcess", "FatalExit", "ExitThread"} )
           => (ctl' = "done" /\ ret_kind' = "value" /\ ret_val' = pc) ]_vars

\* ExitProcess was reached by a call, with the call's return address (not a
\* stop address) on top of the stack, and its address was returned
C3_Witness ==
    /\ ctl = "done"
    /\ ret_kind = "value"
    /\ ret_val = 8
    /\ exports_dict[8] = "ExitProcess"
    /\ emu = "stopped"
    /\ mem[sp] \notin {STACK_MAGIC_RET_ADDR, stop_on_ret_addr}

\* C4: once emulation has been started, a fault that ends the run (the
\* bridge declining the null address, a failing real-process read, an engine
\* error) makes resolve_wrapped_api return None and raise nothing; when every
\* real-process read fails the result is None.
C4_FaultGivesNone ==
    /\ (ctl = "done" /\ emu # "idle" /\ uc_err # "none")
          => (ret_kind = "None" /\ exc = "none")
    /\ ( /\ ctl = "done"
         /\ emu # "idle"
         /\ \A p \in Pages : page_len[p] \in {-1, 0} )
          => (ret_kind = "None" /\ exc = "none")

\* the first fetch of the wrapper faulted, the real-process read failed, and
\* the caller got None
C4_Witness ==
    /\ ctl = "done"
    /\ emu = "error"
    /\ uc_err = "UC_ERR_FETCH_UNMAPPED"
    /\ page_len[PageOf(wrapper_start_addr)] = 0
    /\ \A p \in Pages : page_len[p] \in {-1, 0}
    /\ ret_kind = "None"

\* C5 (as stated): with an expected return address that equals neither the
\* sentinel nor the value on the stack at any export reached, and no reached
\* export non-returning, the run that reaches the bound returns None.
C5_Claim ==
    ( /\ ctl = "done"
      /\ expected_ret_addr \notin {None, STACK_MAGIC_RET_ADDR}
      /\ \A x \in oracle_log :
            x[2] # expected_ret_addr /\ ~_is_no_return_api(exports_dict[x[1]])
      /\ emu = "until" )
    => ret_kind = "None"

\* C6 (as stated): a run that ends because the window start .. start + 1024
\* is exhausted, without the oracle having halted it, returns None.
C6_Claim ==
    (ctl = "done" /\ emu = "until" /\ pc = Wrap(wrapper_start_addr + WINDOW))
    => (ret_kind = "None" /\ ret_val = None)

\* C7 (as stated): every call of resolve_wrapped_api eventually returns.
C7_Claim == <>(ctl = "done")

\* C8 (as stated): the page at address 0 is never mapped into the emulated
\* address space, whatever the faulting address.
C8_Claim == perm[0] = "none"

\* C9: a step of the Memory Bridge leaves every page that is already in the
\* emulated address space as it is: its mapping, its permissions and its
\* contents; so no page is mapped twice.
C9_MapOnce ==
    [][(ctl = "emu" /\ emu = "fault") =>
        \A p \in Pages :
            perm[p] # "none" =>
                /\ perm'[p] = perm[p]
                /\ \A a \in Addr : PageOf(a) = p => mem'[a] = mem[a]]_vars

\* the bridge was asked for a page whose two-page answer runs into a page it
\* had mapped before, and mapped nothing
C9_Witness ==
    /\ emu = "error"
    /\ uc_err = "UC_ERR_MEM_UNMAPPED"
    /\ page_len[0] = 2 * PageSize
    /\ perm[0] = "none"
    /\ perm[1] = "all"

\* C10: for an architecture tag other than "ia32" and "x64" the call raises
\* NotImplementedError, and no emulator instance, mapping or hook exists at
\* any time.
C10_Unsupported ==
    arch \notin {"ia32", "x64"} =>
        /\ ~uc_created
        /\ \A p \in Pages : perm[p] = "none"
        /\ hooks = {}
        /\ emu = "idle"
        /\ ret_kind \in {"pending", "raise"}
        /\ ctl # "call" => (ctl = "done" /\ ret_kind = "raise" /\ exc = "NotImplementedError")

\* the call with the tag "arm64" has raised
C10_Witness ==
    /\ arch = "arm64"
    /\ ctl = "done"
    /\ ret_kind = "raise"
    /\ exc = "NotImplementedError"

\* C11 (as stated): when the mapping of the stack, the TEB or the PEB fails
\* while the environment is built, the resolution ends with an error raised to
\* the caller, not with the ordinary "no result".
C11_Claim ==
    (ctl = "done" /\ uc_err = "UC_ERR_NOMEM" /\ emu = "idle") => ret_kind = "raise"

\* C12: during a resolution a mapped page stays mapped, with the protection it
\* was mapped with: the address space only grows.
C12_OnlyGrows ==
    [][\A p \in Pages : perm[p] # "none" => perm'[p] = perm[p]]_vars

C12_Witness ==
    /\ perm[PageOf(StackAddr(arch))] = "rw"
    /\ \E p, q \in Pages : p # q /\ perm[p] = "all" /\ perm[q] = "all"

\* C13: no step of a resolution changes the memory of the real process.
C13_ProcessUntouched == [][proc_mem' = proc_mem]_vars

C13_Witness ==
    /\ proc_mem = [a \in Addr |-> ProcByte(a)]
    /\ \E a \in Addr : perm[PageOf(a)] = "all" /\ mem[a] # proc_mem[a]

\* C15 (as stated): a value returned by resolve_wrapped_api is the address of
\* the block at which the block hook stopped the run, an address of the export
\* mapping.
C15_Claim ==
    ret_kind = "value" => (emu = "stopped" /\ ret_val \in DOMAIN exports_dict)

\* C16 (as stated): a bridge invocation that reports success for a non-null
\* faulting address has mapped exactly the one page at the aligned address,
\* readable, writable and executable, holding the real process's bytes.
C16_Claim ==
    [][(ctl = "emu" /\ emu = "fault" /\ fault_addr # 0 /\ emu' # "error") =>
        LET aligned_addr == fault_addr - (fault_addr % PageSize)
        IN  /\ {p \in Pages : perm'[p] # perm[p]} = {aligned_addr \div PageSize}
            /\ perm'[aligned_addr \div PageSize] = "all"
            /\ \A a \in Addr :
                  a \div PageSize = aligned_addr \div PageSize => mem'[a] = proc_mem[a]]_vars

\* C17 (as stated): when emulation starts the three pages at the stack base are
\* mapped, sp = bp = stack base + 2 * page_size, and the sentinel is stored
\* there exactly when no expected return address was supplied.
C17_Original ==
    [][(ctl = "call" /\ ctl' = "emu") =>
        /\ \A p \in PagesOf(StackAddr(arch), 3 * PageSize) : perm'[p] = "rw"
        /\ sp' = StackAddr(arch) + 2 * PageSize
        /\ bp' = sp'
        /\ (mem'[sp'] = STACK_MAGIC_RET_ADDR <=> expected_ret_addr = None)]_vars

\* C17 (amended): when emulation starts the three pages at the stack base are
\* mapped, sp = bp = stack base + 2 * page_size, and the sentinel is stored
\* there, whether or not an expected return address was supplied.
C17_Amended ==
    [][(ctl = "call" /\ ctl' = "emu") =>
        /\ \A p \in PagesOf(StackAddr(arch), 3 * PageSize) : perm'[p] = "rw"
        /\ sp' = StackAddr(arch) + 2 * PageSize
        /\ bp' = sp'
        /\ mem'[sp'] = STACK_MAGIC_RET_ADDR]_vars

C17_Witness ==
    /\ ctl = "emu" /\ emu = "fetch" /\ pc = wrapper_start_addr
    /\ \A a \in Addr : code[a] = Undef
    /\ arch = "x64"
    /\ expected_ret_addr \notin {None, STACK_MAGIC_RET_ADDR}
    /\ sp = StackAddr("x64") + 2 * PageSize
    /\ mem[sp] = STACK_MAGIC_RET_ADDR

\* C18 (as stated): enumerate_exported_functions is called once in a
\* resolution and not again during the run.
C18_Original == enum_calls <= 1

\* C18 (amended): enumerate_exported_functions is called once by every
\* invocation of the block hook, and by no other step.
C18_Amended ==
    [][IF AtHook
       THEN enum_calls' = (IF enum_calls < 2 THEN enum_calls + 1 ELSE 2)
       ELSE enum_calls' = enum_calls]_vars

C18_Witness == ctl = "done" /\ ret_kind = "value" /\ enum_calls = 2

\* C19: when wrapper_start_addr is itself a known export whose page was
\* mirrored and no expected return address was supplied, the call returns
\* wrapper_start_addr, no block was executed and sp is where the builder put it.
C19_StartIsExport ==
    ( /\ ctl = "done"
      /\ wrapper_start_addr \in DOMAIN exports_dict
      /\ expected_ret_addr = None
      /\ perm[wrapper_start_addr \div PageSize] = "all" )
    => /\ ret_kind = "value"
       /\ ret_val = wrapper_start_addr
       /\ \A a \in Addr : code[a] = Undef
       /\ sp = StackAddr(arch) + 2 * PageSize

C19_Witness ==
    /\ ctl = "done"
    /\ wrapper_start_addr \in DOMAIN exports_dict
    /\ expected_ret_addr = None
    /\ ret_val = wrapper_start_addr
    /\ enum_calls = 1

\* C20: an invocation of the block hook leaves the registers, the contents of
\* the emulated memory and its mappings as they were.
C20_HookFrame == [][AtHook => UNCHANGED <<perm, mem, pc, sp, bp, seg_base>>]_vars

\* the hook inspected the stack at an export and let the run go on
C20_Witness ==
    /\ ctl = "emu" /\ emu = "exec"
    /\ pc \in DOMAIN exports_dict
    /\ \E x \in oracle_log : x[1] = pc
====
